---- MODULE Spec2Model ----
(***************************************************************************)
(* Model of the strike-proba aggregation job (scripts/update_data.py), the *)
(* rolling-baseline scoring of scripts/sources/aviation.py and             *)
(* scripts/sources/tankers.py, and the record handling of the adapters.    *)
(*                                                                         *)
(* Eight specifications share this module:                                 *)
(*   SpecHistory  update_history, statement by statement, on a heap of     *)
(*                list objects (so that aliasing is observable);           *)
(*   SpecScore    the two calculate_risk_from_baseline functions applied   *)
(*                to bounded counts and histories;                         *)
(*   Spec         main(): load, six adapters, history update, write;       *)
(*   SpecTrend    update_trend_history called on schedule until the        *)
(*                trend is rebuilt;                                        *)
(*   SpecTotal    calculate_total_risk on maps of present signals;         *)
(*   SpecRecords  each adapter on bounded lists of response records;       *)
(*   SpecLong     main() run from no prior state for more than a week;     *)
(*   SpecFetch    fetch_place_data of sources/pentagon_pizza.py,           *)
(*                statement by statement.                                  *)
(*                                                                         *)
(* Arithmetic: Python computes the baseline scores and the composite in    *)
(* IEEE doubles.  calculate_total_risk is computed here in binary64 as     *)
(* well: doubles are integers in units of 2^-57, each operation is exact   *)
(* and then rounded to 53 significant bits, ties to even.  The baseline    *)
(* scores are computed over exact rationals (numerator/denominator         *)
(* pairs) with int() as truncation.  Where the exact argument of int()     *)
(* is within rounding error of an integer, the double may lie on its       *)
(* other side and Python's result then differs by 1; the integer-only      *)
(* paths (cold start, surge, line 123 on an integral deviation) are        *)
(* exact.                                                                  *)
(***************************************************************************)
EXTENDS Integers, Sequences, FiniteSets, TLC

\* ------------------------------------------------------------------------
\* Bounds of the model
\* ------------------------------------------------------------------------
MaxLen == 3
MaxCount == 41
MaxHist == 7
MaxRuns == 19
MaxLongRuns == 1010
FaultyRun == 4
MaxChanges == 1
MaxFaults == 1
MaxRegular == 82
MaxTail == 12
MaxLong == 1
MaxRecords == 3

\* ------------------------------------------------------------------------
\* Program constants
\* ------------------------------------------------------------------------
HISTORY_LENGTH == 17
AVIATION_HISTORY_LENGTH == 144
TANKER_HISTORY_LENGTH == 1008
MIN_HISTORY_FOR_BASELINE == 6
SURGE_THRESHOLD == 12
MAX_ENTRIES == 80
PIN_INTERVAL_MS == 3000000
RETENTION_MS == 259200000
ELEVATED_THRESHOLD == 50
\* number of top-level keys json.dump writes (six sources, total_risk, last_updated)
NKeys == 8
\* time between two runs of the job, ms (10-minute schedule)
Cadence == 600000

VARIABLES
    \* update_history on a heap (SpecHistory)
    heap, existing_history, new_value, max_length, history, hpc, heap0,
    \* calculate_risk_from_baseline (SpecScore)
    sHistory, sCount, avRisk, tkRisk, prevCount, prevAv, prevTk,
    \* main() and its surroundings (Spec)
    file,               \* content of data.json
    pc,                 \* position of the run in main()
    existing,           \* value returned by load_existing_data()
    signals,            \* the six snapshots fetched so far
    aviation_baseline, tanker_baseline,
    output,             \* the document built at lines 241-249
    now,                \* wall clock, ms
    env,                \* what the upstream services currently report
    exitCode,           \* -1 while running, 0 success, 1 error
    failure,            \* what ended the run: "none", an adapter key, "load", "shape", "crash"
    file0,              \* content of data.json when the run started
    log,                \* risks of the successful runs since the last run without prior state
    runs, changes, faults,
    \* update_trend_history called on its own (SpecTrend)
    trend,              \* the trend series, as returned by the last call
    tNow,               \* timestamp_ms of the last call
    tRegular,           \* interval of the schedule in its regular phase
    tPhase,             \* "regular", then "tail" once a call came off schedule
    tCalls, tTail, tLong,
    tPrior,             \* the series passed to the last call
    tAppended,          \* the series of the last call after line 110, before the rebuild
    tRebuilt,           \* whether the last call executed lines 116-122
    \* calculate_total_risk called on its own (SpecTotal)
    cSignals,           \* the signals argument
    cTotal,             \* the value returned, -1 before the call
    \* one adapter run on one upstream response (SpecRecords)
    rAdapter,           \* which adapter
    rRecords,           \* the collection of records in the response
    rOutcome,           \* "none", then "snapshot" or "error"
    rCount,             \* what the adapter counted in the records it used
    \* bookkeeping of main() for the properties below
    countLog,           \* environment and raw counts of the successful runs, as log
    \* fetch_place_data called for one place after the other (SpecFetch)
    api_key,            \* whether OUTSCRAPER_API_KEY is set
    fPlace,             \* index of the place being fetched, 0 before the first
    fPc,                \* position in fetch_place_data
    attempt,            \* iterations of the for loop started in this call
    last_error,         \* "None", "Timeout" or "ConnectionError"
    response,           \* the response of the last request
    fRequests,          \* requests.get calls made in this call
    fOutcome,           \* "none", "returned", or the exception that left the call
    fResult,            \* the value returned
    fTrace              \* how each attempt of this call ended

histVars == <<heap, existing_history, new_value, max_length, history, hpc, heap0>>
scoreVars == <<sHistory, sCount, avRisk, tkRisk, prevCount, prevAv, prevTk>>
runVars == <<file, pc, existing, signals, aviation_baseline, tanker_baseline, output,
             now, env, exitCode, failure, file0, log, runs, changes, faults>>
trendVars == <<trend, tNow, tRegular, tPhase, tCalls, tTail, tLong, tPrior, tAppended, tRebuilt>>
totVars == <<cSignals, cTotal>>
recVars == <<rAdapter, rRecords, rOutcome, rCount>>
auxVars == <<countLog>>
fetchVars == <<api_key, fPlace, fPc, attempt, last_error, response, fRequests, fOutcome,
               fResult, fTrace>>
restVars == <<trendVars, totVars, recVars, auxVars, fetchVars>>
vars == <<histVars, scoreVars, runVars, restVars>>

\* ------------------------------------------------------------------------
\* Python helpers
\* ------------------------------------------------------------------------
Min(a, b) == IF a <= b THEN a ELSE b
Max(a, b) == IF a >= b THEN a ELSE b

\* int(n/d) for d > 0: truncation toward zero
PyInt(n, d) == IF n >= 0 THEN n \div d ELSE -((-n) \div d)

\* s[-n:] : the last n elements; -0 is 0, so s[-0:] is s[0:], the whole list
PySliceLast(s, n) ==
    IF n = 0 THEN s
    ELSE IF n > 0 THEN (IF n >= Len(s) THEN s ELSE SubSeq(s, Len(s) - n + 1, Len(s)))
    ELSE SubSeq(s, Min(-n, Len(s)) + 1, Len(s))

RECURSIVE Sum(_)
Sum(s) ==
    IF s = <<>> THEN 0
    ELSE IF Len(s) = 1 THEN s[1]
    ELSE LET half == Len(s) \div 2
         IN  Sum(SubSeq(s, 1, half)) + Sum(SubSeq(s, half + 1, Len(s)))

\* ------------------------------------------------------------------------
\* update_history as a function of values
\* ------------------------------------------------------------------------
\* the trim keeps the oldest entries: history[:max_length]
update_history_keep_oldest(prior, value, maxLength) ==
    LET h == Append(prior, value)
    IN  IF Len(h) > maxLength THEN SubSeq(h, 1, maxLength) ELSE h

update_history(prior, value, maxLength) ==
    LET h == Append(prior, value)
    IN  IF Len(h) > maxLength THEN PySliceLast(h, maxLength) ELSE h

\* ------------------------------------------------------------------------
\* The persisted document and the file that holds it
\* ------------------------------------------------------------------------
SourceKeys == {"news", "aviation", "tanker", "pentagon", "polymarket", "weather"}

\* WEIGHTS, in hundredths
WEIGHTS == [polymarket |-> 40, aviation |-> 20, tanker |-> 15,
            news |-> 10, pentagon |-> 10, weather |-> 5]

\* One top-level value of the document under a source key.  shape is "map"
\* for a mapping, "scalar" for any JSON value that is not a mapping, "absent"
\* when the key is missing.  count is raw_data.total_count / tanker_count,
\* baseline is raw_data.baseline_history.
AbsentEntry == [shape |-> "absent", risk |-> 0, history |-> <<>>, count |-> 0, baseline |-> <<>>]
ScalarEntry == [shape |-> "scalar", risk |-> 0, history |-> <<>>, count |-> 0, baseline |-> <<>>]
Snapshot(r, c) == [shape |-> "map", risk |-> r, history |-> <<>>, count |-> c, baseline |-> <<>>]

AbsentTotal == [shape |-> "absent", risk |-> 0, history |-> <<>>, elevated_count |-> 0]
ScalarTotal == [shape |-> "scalar", risk |-> 0, history |-> <<>>, elevated_count |-> 0]

NoSignals == [k \in SourceKeys |-> AbsentEntry]

\* a document: the six source entries, total_risk and last_updated
MakeDoc(entries, total, updated) ==
    [news |-> entries["news"], aviation |-> entries["aviation"],
     tanker |-> entries["tanker"], pentagon |-> entries["pentagon"],
     polymarket |-> entries["polymarket"], weather |-> entries["weather"],
     total_risk |-> total, last_updated |-> updated]

EmptyDoc == MakeDoc(NoSignals, AbsentTotal, 0)

\* File content.  kind:
\*   "missing"      no file
\*   "invalid"      text that is not JSON
\*   "undecodable"  bytes that are not text in the reader's encoding
\*   "falsy"        JSON whose Python value is falsy: [], {}, 0, "", null, false
\*   "nonobject"    any other JSON value that is not an object: [1], 5, "x"
\*   "object"       a JSON object, given by doc
\*   "partial"      the first n top-level keys of doc, the write not finished
FileOf(kind, doc, n) == [kind |-> kind, doc |-> doc, n |-> n]

NoValue == [kind |-> "none", doc |-> EmptyDoc]

RunIdle ==
    /\ file = FileOf("missing", EmptyDoc, 0) /\ file0 = file
    /\ pc = "off" /\ existing = NoValue /\ signals = NoSignals
    /\ aviation_baseline = <<>> /\ tanker_baseline = <<>>
    /\ output = EmptyDoc /\ now = 0 /\ env = 0
    /\ exitCode = -1 /\ failure = "none" /\ log = <<>>
    /\ runs = 0 /\ changes = 0 /\ faults = 0

\* ------------------------------------------------------------------------
\* update_history, statement by statement.  heap is the sequence of list
\* objects; a reference is an index into it, 0 is None.
\* ------------------------------------------------------------------------
HistValues == {1, 2}
InputLists == UNION {[1..n -> HistValues] : n \in 0..MaxLen}

ScoreIdle ==
    /\ sHistory = <<>> /\ sCount = 0 /\ avRisk = -1 /\ tkRisk = -1
    /\ prevCount = -1 /\ prevAv = -1 /\ prevTk = -1

HistoryIdle ==
    /\ heap = <<>> /\ heap0 = <<>> /\ existing_history = 0 /\ new_value = 0
    /\ max_length = 0 /\ history = 0 /\ hpc = "idle"

TrendIdle ==
    /\ trend = <<>> /\ tPrior = <<>> /\ tAppended = <<>> /\ tRebuilt = FALSE
    /\ tNow = 0 /\ tRegular = 0 /\ tPhase = "off"
    /\ tCalls = 0 /\ tTail = 0 /\ tLong = 0

TotalIdle == cSignals = NoSignals /\ cTotal = -1

RecordsIdle == rAdapter = "none" /\ rRecords = <<>> /\ rOutcome = "none" /\ rCount = 0

AuxIdle == countLog = <<>>

NoResponse == [status |-> "none", body |-> "none"]

FetchIdle ==
    /\ api_key = FALSE /\ fPlace = 0 /\ fPc = "idle" /\ attempt = 0
    /\ last_error = "None" /\ response = NoResponse /\ fRequests = 0
    /\ fOutcome = "none" /\ fResult = "none" /\ fTrace = <<>>

RestIdle == TrendIdle /\ TotalIdle /\ RecordsIdle /\ AuxIdle /\ FetchIdle

InitHistory ==
    /\ \E l \in InputLists, isNone \in BOOLEAN :
          /\ heap = IF isNone THEN <<>> ELSE <<l>>
          /\ existing_history = IF isNone THEN 0 ELSE 1
    /\ heap0 = heap
    /\ new_value \in HistValues
    /\ max_length \in 0..(MaxLen + 1)
    /\ history = 0
    /\ hpc = "entry"
    /\ ScoreIdle
    /\ RunIdle
    /\ RestIdle

\* lines 69-70: if existing_history is None: existing_history = []
DefaultNone ==
    /\ hpc = "entry"
    /\ IF existing_history = 0
       THEN /\ heap' = Append(heap, <<>>)
            /\ existing_history' = Len(heap) + 1
       ELSE UNCHANGED <<heap, existing_history>>
    /\ hpc' = "copy"
    /\ UNCHANGED <<new_value, max_length, history, heap0, scoreVars, runVars, restVars>>

\* history = existing_history  (no copy: both names refer to one list)
AliasList ==
    /\ hpc = "copy"
    /\ history' = existing_history
    /\ hpc' = "append"
    /\ UNCHANGED <<heap, existing_history, new_value, max_length, heap0, scoreVars, runVars, restVars>>

\* line 72: history = list(existing_history)
CopyList ==
    /\ hpc = "copy"
    /\ heap' = Append(heap, heap[existing_history])
    /\ history' = Len(heap) + 1
    /\ hpc' = "append"
    /\ UNCHANGED <<existing_history, new_value, max_length, heap0, scoreVars, runVars, restVars>>

\* line 73: history.append(new_value), in place
AppendValue ==
    /\ hpc = "append"
    /\ heap' = [heap EXCEPT ![history] = Append(@, new_value)]
    /\ hpc' = "trim"
    /\ UNCHANGED <<existing_history, new_value, max_length, history, heap0, scoreVars, runVars, restVars>>

\* lines 76-77: if len(history) > max_length: history = history[-max_length:]
\* (a slice is a new list)
TrimHistory ==
    /\ hpc = "trim"
    /\ IF Len(heap[history]) > max_length
       THEN /\ heap' = Append(heap, PySliceLast(heap[history], max_length))
            /\ history' = Len(heap) + 1
       ELSE UNCHANGED <<heap, history>>
    /\ hpc' = "done"
    /\ UNCHANGED <<existing_history, new_value, max_length, heap0, scoreVars, runVars, restVars>>

NextHistory == DefaultNone \/ CopyList \/ AppendValue \/ TrimHistory

SpecHistory == InitHistory /\ [][NextHistory]_vars

\* the list passed in (<<>> for None) and the list returned
HistoryArg == IF heap0 = <<>> THEN <<>> ELSE heap0[1]
HistoryResult == heap[history]

\* C4: update_history never returns more than maxLength elements, for every
\* history and every maxLength >= 0, and a history of exactly maxLength
\* elements gives its last maxLength - 1 elements followed by newValue.
C4_LengthBound ==
    hpc = "done" =>
        /\ Len(HistoryResult) <= max_length
        /\ Len(HistoryArg) = max_length =>
              HistoryResult = Append(SubSeq(HistoryArg, 2, Len(HistoryArg)), new_value)

\* C5: the list passed in is never changed by the call, and None is treated
\* as the empty list: the result is then the one-element list [newValue].
C5_InputUnchanged ==
    /\ heap0 # <<>> => heap[1] = heap0[1]
    /\ (hpc = "done" /\ heap0 = <<>>) => HistoryResult = <<new_value>>

\* a call on a full list returned, after truncation
C5_Witness ==
    /\ hpc = "done"
    /\ heap0 # <<>>
    /\ max_length = 2
    /\ Len(heap0[1]) = 3
    /\ Len(HistoryResult) = 2

\* ------------------------------------------------------------------------
\* sources/aviation.py: calculate_risk_from_baseline
\* A rational is a pair <<numerator, denominator>>, denominator > 0.
\* ------------------------------------------------------------------------
\* baseline = sum(history) / len(history); if baseline <= 0: baseline = 1
AviationBaseline(h) == IF Sum(h) <= 0 THEN <<1, 1>> ELSE <<Sum(h), Len(h)>>

\* lines 101-108
AviationColdStart(c) ==
    IF c >= 50 THEN 0
    ELSE IF c >= 30 THEN (50 - c) * 2
    ELSE IF c >= 10 THEN 40 + (30 - c) * 2
    ELSE Min(100, 80 + (10 - c) * 2)

\* lines 117-135; deviation = (baseline - current_count) / baseline = dn/dd
AviationFromDeviation(dn, dd) ==
    IF dn <= 0 THEN Max(0, PyInt((-dn) * 20, dd))
    ELSE IF 5 * dn < dd THEN PyInt(dn * 100, dd)
    ELSE IF 5 * dn < 2 * dd THEN PyInt(20 * 5 * dd + (5 * dn - dd) * 150, 5 * dd)
    ELSE IF 5 * dn < 3 * dd THEN PyInt(50 * 5 * dd + (5 * dn - 2 * dd) * 150, 5 * dd)
    ELSE Min(100, PyInt(80 * 5 * dd + (5 * dn - 3 * dd) * 50, 5 * dd))

aviation_risk(c, h) ==
    IF Len(h) < MIN_HISTORY_FOR_BASELINE THEN AviationColdStart(c)
    ELSE LET b == AviationBaseline(h)
         IN  AviationFromDeviation(b[1] - c * b[2], b[1])

\* ------------------------------------------------------------------------
\* sources/tankers.py: calculate_risk_from_baseline
\* ------------------------------------------------------------------------
\* baseline = sum(history) / len(history); if baseline <= 0: baseline = 0.5
TankerBaseline(h) == IF Sum(h) <= 0 THEN <<1, 2>> ELSE <<Sum(h), Len(h)>>

\* lines 121-126
TankerColdStart(c) ==
    IF c <= 2 THEN 10 + c * 10
    ELSE IF c <= 5 THEN 30 + (c - 2) * 10
    ELSE Min(100, 60 + (c - 5) * 10)

\* lines 135-148; ratio = tanker_count / baseline = rn/rd
TankerFromRatio(rn, rd) ==
    IF rn <= rd THEN PyInt(10 * rd + rn * 20, rd)
    ELSE IF 2 * rn <= 3 * rd THEN PyInt(30 * rd + (rn - rd) * 40, rd)
    ELSE IF rn <= 2 * rd THEN PyInt(50 * 2 * rd + (2 * rn - 3 * rd) * 40, 2 * rd)
    ELSE Min(100, PyInt(70 * rd + (rn - 2 * rd) * 15, rd))

\* lines 110-111
TankerSurge(c) == Min(100, 70 + (c - SURGE_THRESHOLD) * 3)

\* the surge check made after the cold-start tiers instead of first
tanker_risk_surge_late(c, h) ==
    IF c = 0 THEN 0
    ELSE IF Len(h) < MIN_HISTORY_FOR_BASELINE THEN TankerColdStart(c)
    ELSE IF c >= SURGE_THRESHOLD THEN TankerSurge(c)
    ELSE LET b == TankerBaseline(h)
         IN  TankerFromRatio(c * b[2], b[1])

tanker_risk(c, h) ==
    IF c >= SURGE_THRESHOLD THEN TankerSurge(c)
    ELSE IF c = 0 THEN 0
    ELSE IF Len(h) < MIN_HISTORY_FOR_BASELINE THEN TankerColdStart(c)
    ELSE LET b == TankerBaseline(h)
         IN  TankerFromRatio(c * b[2], b[1])

\* ------------------------------------------------------------------------
\* SpecScore: both scoring functions applied to a count and a history, then
\* to another count on the same history.  -1 marks "not computed yet".
\* ------------------------------------------------------------------------
BaseCounts == {0, 1, 5, 10}
Counts == 0..MaxCount

\* histories: n - 1 equal observations followed by one more
ScoreHistories ==
    {<<>>} \cup {[i \in 1..n |-> IF i < n THEN v ELSE w] :
                    n \in 1..MaxHist, v \in BaseCounts, w \in BaseCounts}

InitScore ==
    /\ sHistory \in ScoreHistories
    /\ sCount \in Counts
    /\ avRisk = -1 /\ tkRisk = -1
    /\ prevCount = -1 /\ prevAv = -1 /\ prevTk = -1
    /\ HistoryIdle
    /\ RunIdle
    /\ RestIdle

\* aviation.py line 161: risk = calculate_risk_from_baseline(total_count, history)
ScoreAviation ==
    /\ avRisk = -1
    /\ avRisk' = aviation_risk(sCount, sHistory)
    /\ UNCHANGED <<sHistory, sCount, tkRisk, prevCount, prevAv, prevTk, histVars, runVars, restVars>>

\* tankers.py line 194: risk = calculate_risk_from_baseline(tanker_count, history)
ScoreTanker ==
    /\ tkRisk = -1
    /\ tkRisk' = tanker_risk(sCount, sHistory)
    /\ UNCHANGED <<sHistory, sCount, avRisk, prevCount, prevAv, prevTk, histVars, runVars, restVars>>

\* the next poll: another count, scored against the same history
NextPoll ==
    /\ avRisk # -1 /\ tkRisk # -1
    /\ prevCount = -1
    /\ prevCount' = sCount /\ prevAv' = avRisk /\ prevTk' = tkRisk
    /\ sCount' \in Counts
    /\ avRisk' = -1 /\ tkRisk' = -1
    /\ UNCHANGED <<sHistory, histVars, runVars, restVars>>

NextScore == ScoreAviation \/ ScoreTanker \/ NextPoll

SpecScore == InitScore /\ [][NextScore]_vars

\* C7: both baseline-relative scores lie in 0..100 for every count >= 0 and
\* every history of non-negative integers.
C7_RiskInRange ==
    /\ avRisk # -1 => avRisk \in 0..100
    /\ tkRisk # -1 => tkRisk \in 0..100

\* C8: on a fixed history the aviation risk never increases when the count
\* increases.
C8_AviationMonotone ==
    (prevAv # -1 /\ avRisk # -1 /\ prevCount <= sCount) => prevAv >= avRisk

\* C9: on a fixed history the tanker risk never decreases when the count
\* increases.
C9_TankerMonotone ==
    (prevTk # -1 /\ tkRisk # -1 /\ prevCount <= sCount) => prevTk <= tkRisk

TrendEntry(ts, r, p) == [timestamp |-> ts, risk |-> r, pinned |-> p]

\* line 95: next((h for h in reversed(history) if h.get('pinned')), None),
\* as an index; 0 is None
LastPinned(h) ==
    IF \E i \in 1..Len(h) : h[i].pinned
    THEN CHOOSE i \in 1..Len(h) : h[i].pinned /\ \A j \in (i + 1)..Len(h) : ~h[j].pinned
    ELSE 0

\* lines 93-100
ShouldPin(h, timestamp_ms) ==
    IF LastPinned(h) = 0 THEN TRUE
    ELSE ~(timestamp_ms - h[LastPinned(h)].timestamp < PIN_INTERVAL_MS)

InList(e, l) == \E i \in 1..Len(l) : l[i] = e

\* a rebuild that keeps the last ten entries only
RebuildTrend_recent_only(h, timestamp_ms) ==
    PySliceLast(h, 10)

\* lines 116-122
RebuildTrend(h, timestamp_ms) ==
    LET cutoff_ms == timestamp_ms - RETENTION_MS
        filtered == SelectSeq(h, LAMBDA e : e.pinned /\ e.timestamp > cutoff_ms)
        recent == SelectSeq(PySliceLast(h, 10), LAMBDA e : ~InList(e, filtered))
    IN  filtered \o recent

\* lines 90-110: the series with the new entry appended
TrendAppended(prior, new_risk, timestamp_ms) ==
    Append(prior, TrendEntry(timestamp_ms, new_risk, ShouldPin(prior, timestamp_ms)))

update_trend_history(prior, new_risk, timestamp_ms) ==
    LET h == TrendAppended(prior, new_risk, timestamp_ms)
    IN  IF Len(h) > MAX_ENTRIES THEN RebuildTrend(h, timestamp_ms) ELSE h

RECURSIVE SumOver(_, _)
SumOver(f, S) ==
    IF S = {} THEN 0
    ELSE LET k == CHOOSE x \in S : TRUE IN f[k] + SumOver(f, S \ {k})

\* ------------------------------------------------------------------------
\* IEEE-754 binary64 arithmetic, as Python's float operators perform it, on
\* the values calculate_total_risk computes: zero, or at least 2^-5 and
\* below 2^11.  A double in that range is an integer multiple of 2^-57; it
\* is held as that integer, written in base 2^12 with the least significant
\* limb first and no leading zero limb (zero is the empty sequence; TLC's own
\* integers have 32 bits).  Every operation computes the exact result and
\* rounds it to 53 significant bits, ties to even.
\* ------------------------------------------------------------------------
LimbBits == 12
LimbBase == 2^LimbBits
FracBits == 57
Mantissa == 53

Limb(x, i) == IF i <= Len(x) THEN x[i] ELSE 0

RECURSIVE BNorm(_)
BNorm(x) == IF x # <<>> /\ x[Len(x)] = 0 THEN BNorm(SubSeq(x, 1, Len(x) - 1)) ELSE x

RECURSIVE BAddFrom(_, _, _, _)
BAddFrom(x, y, i, carry) ==
    IF i > Max(Len(x), Len(y))
    THEN IF carry = 0 THEN <<>> ELSE <<carry>>
    ELSE LET s == Limb(x, i) + Limb(y, i) + carry
         IN  <<s % LimbBase>> \o BAddFrom(x, y, i + 1, s \div LimbBase)

BAdd(x, y) == BAddFrom(x, y, 1, 0)

\* x - y for x >= y
RECURSIVE BSubFrom(_, _, _, _)
BSubFrom(x, y, i, borrow) ==
    IF i > Len(x) THEN <<>>
    ELSE LET d == Limb(x, i) - Limb(y, i) - borrow
         IN  <<IF d < 0 THEN d + LimbBase ELSE d>>
                 \o BSubFrom(x, y, i + 1, IF d < 0 THEN 1 ELSE 0)

BSub(x, y) == BNorm(BSubFrom(x, y, 1, 0))

\* x * n for 0 <= n < LimbBase
RECURSIVE BMulFrom(_, _, _, _)
BMulFrom(x, n, i, carry) ==
    IF i > Len(x)
    THEN IF carry = 0 THEN <<>> ELSE <<carry>>
    ELSE LET s == x[i] * n + carry
         IN  <<s % LimbBase>> \o BMulFrom(x, n, i + 1, s \div LimbBase)

BMulSmall(x, n) == BNorm(BMulFrom(x, n, 1, 0))

RECURSIVE BMul(_, _)
BMul(x, y) ==
    IF x = <<>> \/ y = <<>> THEN <<>>
    ELSE BNorm(BAdd(BMulSmall(x, y[1]), <<0>> \o BMul(x, Tail(y))))

BLess(x, y) ==
    \/ Len(x) < Len(y)
    \/ /\ Len(x) = Len(y)
       /\ \E i \in 1..Len(x) : x[i] < y[i] /\ \A j \in (i + 1)..Len(x) : x[j] = y[j]

\* x * 2^k and floor(x / 2^k)
BShiftLeft(x, k) ==
    IF x = <<>> THEN <<>>
    ELSE [i \in 1..(k \div LimbBits) |-> 0] \o BMulSmall(x, 2^(k % LimbBits))

BShiftRight(x, k) ==
    LET y == SubSeq(x, (k \div LimbBits) + 1, Len(x))
        b == k % LimbBits
    IN  BNorm([i \in 1..Len(y) |->
                  (y[i] \div 2^b) + (Limb(y, i + 1) % 2^b) * 2^(LimbBits - b)])

BitLength(x) ==
    IF x = <<>> THEN 0
    ELSE (Len(x) - 1) * LimbBits
         + (CHOOSE n \in 1..LimbBits : 2^(n - 1) <= x[Len(x)] /\ x[Len(x)] < 2^n)

\* <<floor(a / b), a mod b>> by long division, one limb of a at a time,
\* for b whose top limb is at least LimbBase / 2: the quotient digit is then
\* at most 2 below its estimate from the top limbs (Knuth, algorithm D)
RECURSIVE BDivMod(_, _)
BDivMod(a, b) ==
    IF a = <<>> THEN <<<<>>, <<>>>>
    ELSE LET upper == BDivMod(Tail(a), b)
             cur == BNorm(<<a[1]>> \o upper[2])
             n == Len(b)
             estimate == Min((Limb(cur, n + 1) * LimbBase + Limb(cur, n)) \div b[n],
                             LimbBase - 1)
             d == CHOOSE c \in Max(estimate - 2, 0)..estimate :
                      /\ ~BLess(cur, BMulSmall(b, c))
                      /\ BLess(cur, BMulSmall(b, c + 1))
         IN  IF BLess(cur, b)
             THEN <<BNorm(<<0>> \o upper[1]), cur>>
             ELSE <<BNorm(<<d>> \o upper[1]), BSub(cur, BMulSmall(b, d))>>

\* x rounded to Mantissa significant bits, ties to even
Round53(x) ==
    LET t == BitLength(x) - Mantissa
    IN  IF t <= 0 THEN x
        ELSE LET q == BShiftRight(x, t)
                 r == BSub(x, BShiftLeft(q, t))
                 half == BShiftLeft(<<1>>, t - 1)
                 up == BLess(half, r) \/ (r = half /\ q[1] % 2 = 1)
             IN  BShiftLeft(IF up THEN BAdd(q, <<1>>) ELSE q, t)

\* float(n) for an integer 0 <= n < LimbBase
FromInt(n) == BShiftLeft(IF n = 0 THEN <<>> ELSE <<n>>, FracBits)

\* int(a)
FInt(a) ==
    LET y == BShiftRight(a, FracBits) IN Limb(y, 1) + Limb(y, 2) * LimbBase

FAdd(a, b) == Round53(BAdd(a, b))

FMul(a, b) ==
    IF b = FromInt(1) THEN a
    ELSE BShiftRight(Round53(BMul(a, b)), FracBits)

\* the quotient with three more bits and a sticky bit, then rounded; both
\* operands are first scaled by the power of two that BDivMod asks for
FDiv(a, b) ==
    IF b = FromInt(1) THEN a
    ELSE LET scale == (LimbBits - (BitLength(b) % LimbBits)) % LimbBits
             qr == BDivMod(BShiftLeft(a, FracBits + 3 + scale), BShiftLeft(b, scale))
             x == BAdd(BMulSmall(qr[1], 2), IF qr[2] = <<>> THEN <<>> ELSE <<1>>)
         IN  BShiftRight(Round53(x), 4)

\* the doubles of the literals at lines 39-44, in the order of the dict
WeightOrder == <<"polymarket", "aviation", "tanker", "news", "pentagon", "weather">>
WeightDouble == [k \in SourceKeys |-> FDiv(FromInt(WEIGHTS[k]), FromInt(100))]

\* lines 131-137: <<total, weight_sum>> after the first n keys of WEIGHTS
RECURSIVE TotalLoop(_, _)
TotalLoop(sigs, n) ==
    IF n = 0 THEN <<<<>>, <<>>>>
    ELSE LET acc == TotalLoop(sigs, n - 1)
             key == WeightOrder[n]
         IN  IF sigs[key].shape = "map"
             THEN <<FAdd(acc[1], FMul(FromInt(sigs[key].risk), WeightDouble[key])),
                    FAdd(acc[2], WeightDouble[key])>>
             ELSE acc

\* sum(WEIGHTS.values()), line 140
RECURSIVE SumWeights(_)
SumWeights(n) ==
    IF n = 0 THEN <<>> ELSE FAdd(SumWeights(n - 1), WeightDouble[WeightOrder[n]])

\* lines 131-142
calculate_total_risk(sigs) ==
    LET acc == TotalLoop(sigs, Len(WeightOrder))
        total == acc[1]
        weight_sum == acc[2]
    IN  IF weight_sum # <<>>
        THEN FInt(FMul(FDiv(total, weight_sum),
                       FDiv(SumWeights(Len(WeightOrder)), weight_sum)))
        ELSE 0

\* a count of the risks strictly above the threshold
count_elevated_signals_strict(sigs) ==
    Cardinality({k \in SourceKeys : sigs[k].shape = "map" /\ sigs[k].risk > ELEVATED_THRESHOLD})

\* lines 149-153
count_elevated_signals(sigs) ==
    Cardinality({k \in SourceKeys : sigs[k].shape = "map" /\ sigs[k].risk >= ELEVATED_THRESHOLD})

\* ------------------------------------------------------------------------
\* The environment: what the six upstream services report during one run.
\* news, pentagon, polymarket and weather are given by the risk their adapter
\* computes from the response; aviation and tankers by the airborne count.
\* ------------------------------------------------------------------------
Scenarios ==
    << [news |-> 10, aviation |-> 40, tanker |-> 2, pentagon |-> 20, polymarket |-> 90, weather |-> 5],
       [news |-> 55, aviation |-> 12, tanker |-> 14, pentagon |-> 50, polymarket |-> 49, weather |-> 30] >>

\* the prior documents a first run may find
BadAviationDoc == MakeDoc([NoSignals EXCEPT !["aviation"] = ScalarEntry], AbsentTotal, 0)
BadNewsDoc == MakeDoc([NoSignals EXCEPT !["news"] = ScalarEntry], AbsentTotal, 0)
BadTotalDoc == MakeDoc(NoSignals, ScalarTotal, 0)

InitialFiles ==
    {FileOf(k, EmptyDoc, 0) : k \in {"missing", "invalid", "undecodable", "falsy", "nonobject"}}
    \cup {FileOf("object", d, NKeys) : d \in {EmptyDoc, BadAviationDoc, BadNewsDoc, BadTotalDoc}}

Init ==
    /\ file \in InitialFiles
    /\ file0 = file
    /\ pc = "idle" /\ existing = NoValue /\ signals = NoSignals
    /\ aviation_baseline = <<>> /\ tanker_baseline = <<>>
    /\ output = EmptyDoc /\ now = 0 /\ env = 0
    /\ exitCode = -1 /\ failure = "none" /\ log = <<>>
    /\ runs = 0 /\ changes = 0 /\ faults = 0
    /\ HistoryIdle /\ ScoreIdle /\ RestIdle

\* Python truth value of `existing`
Truthy(e) == e.kind \in {"nonobject", "object"}

\* ------------------------------------------------------------------------
\* main()
\* ------------------------------------------------------------------------
\* the scheduler starts the job; the services report scenario e
StartRun ==
    /\ pc \in {"idle", "exited"}
    /\ runs < MaxRuns
    /\ runs' = runs + 1
    /\ \E e \in 1..Len(Scenarios) :
          /\ env = 0 \/ e = env \/ changes < MaxChanges
          /\ env' = e
          /\ changes' = IF env \notin {0, e} THEN changes + 1 ELSE changes
    /\ now' = now + Cadence
    /\ file0' = file
    /\ pc' = "load"
    /\ existing' = NoValue /\ signals' = NoSignals
    /\ aviation_baseline' = <<>> /\ tanker_baseline' = <<>>
    /\ output' = EmptyDoc
    /\ exitCode' = -1 /\ failure' = "none"
    /\ UNCHANGED <<file, log, faults, histVars, scoreVars, restVars>>

\* an exception leaves main(): the process ends with a non-zero status after
\* the data.json handle, opened before the fetches, truncated the file
RaiseAfterOpen(reason) ==
    /\ pc' = "exited" /\ exitCode' = 1 /\ failure' = reason
    /\ file' = FileOf("partial", EmptyDoc, 0)
    /\ UNCHANGED <<existing, signals, aviation_baseline, tanker_baseline, output,
                   now, env, file0, log, runs, changes, histVars, scoreVars, restVars>>

\* an exception leaves main() (line 165: no try/except): the process ends
\* with a non-zero status
Raise(reason) ==
    /\ pc' = "exited" /\ exitCode' = 1 /\ failure' = reason
    /\ UNCHANGED <<file, existing, signals, aviation_baseline, tanker_baseline, output,
                   now, env, file0, log, runs, changes, histVars, scoreVars, restVars>>

\* lines 52-62 and 163
load_existing_data ==
    /\ pc = "load"
    /\ IF file.kind = "undecodable"
       THEN \* UnicodeDecodeError is neither JSONDecodeError nor IOError
            Raise("load") /\ UNCHANGED faults
       ELSE /\ existing' = IF file.kind \in {"missing", "invalid", "partial"}
                           THEN NoValue
                           ELSE [kind |-> file.kind, doc |-> file.doc]
            /\ pc' = "news"
            /\ UNCHANGED <<file, signals, aviation_baseline, tanker_baseline, output, now, env,
                           exitCode, failure, file0, log, runs, changes, faults,
                           histVars, scoreVars, restVars>>

\* a call of one adapter at position p, continuing at q: it returns the
\* snapshot snap or raises
CallAdapter(key, p, q, snap) ==
    /\ pc = p
    /\ \/ /\ signals' = [signals EXCEPT ![key] = snap]
          /\ pc' = q
          /\ UNCHANGED <<file, existing, aviation_baseline, tanker_baseline, output, now, env,
                         exitCode, failure, file0, log, runs, changes, faults,
                         histVars, scoreVars, restVars>>
       \/ /\ faults < MaxFaults
          /\ faults' = faults + 1
          /\ Raise(key)

\* line 167
get_news_risk == CallAdapter("news", "news", "baselines", Snapshot(Scenarios[env].news, 0))

\* lines 171-175
GetBaselines ==
    /\ pc = "baselines"
    /\ IF Truthy(existing)
       THEN IF existing.kind = "nonobject" \/ existing.doc.aviation.shape = "scalar"
                 \/ existing.doc.tanker.shape = "scalar"
            THEN \* AttributeError: no .get on a list, a number or a string
                 Raise("shape") /\ UNCHANGED faults
            ELSE /\ aviation_baseline' = existing.doc.aviation.baseline
                 /\ tanker_baseline' = existing.doc.tanker.baseline
                 /\ pc' = "aviation"
                 /\ UNCHANGED <<file, existing, signals, output, now, env, exitCode, failure,
                                file0, log, runs, changes, faults, histVars, scoreVars, restVars>>
       ELSE /\ pc' = "aviation"
            /\ UNCHANGED <<file, existing, signals, aviation_baseline, tanker_baseline, output,
                           now, env, exitCode, failure, file0, log, runs, changes, faults,
                           histVars, scoreVars, restVars>>

\* scoring against the history to which the current count was already appended
get_aviation_risk_after_append ==
    CallAdapter("aviation", "aviation", "tanker",
                Snapshot(aviation_risk(Scenarios[env].aviation,
                                       Append(aviation_baseline, Scenarios[env].aviation)),
                         Scenarios[env].aviation))

\* line 178 and aviation.py lines 138-183
get_aviation_risk ==
    CallAdapter("aviation", "aviation", "tanker",
                Snapshot(aviation_risk(Scenarios[env].aviation, aviation_baseline),
                         Scenarios[env].aviation))

\* line 182 and tankers.py lines 151-221
get_tanker_risk ==
    CallAdapter("tanker", "tanker", "pentagon",
                Snapshot(tanker_risk(Scenarios[env].tanker, tanker_baseline),
                         Scenarios[env].tanker))

\* line 186
get_pentagon_pizza_risk ==
    CallAdapter("pentagon", "pentagon", "polymarket", Snapshot(Scenarios[env].pentagon, 0))

\* line 190
get_polymarket_risk ==
    CallAdapter("polymarket", "polymarket", "weather", Snapshot(Scenarios[env].polymarket, 0))

\* line 194
get_weather_risk ==
    CallAdapter("weather", "weather", "build", Snapshot(Scenarios[env].weather, 0))

\* a run that does not take over the prior display history
PriorHistory_forgotten(e, key) ==
    <<>>

\* the display history the prior document holds for a key (None is taken as [])
PriorHistory(e, key) ==
    IF Truthy(e) /\ e.doc[key].shape = "map" THEN e.doc[key].history ELSE <<>>

\* lines 234-236
PriorTrend(e) ==
    IF Truthy(e) /\ e.doc.total_risk.shape = "map" THEN e.doc.total_risk.history ELSE <<>>

\* lines 208-223: display histories, then the two baseline histories
WithHistories(sigs, e, avBase, tkBase) ==
    LET shown == [k \in SourceKeys |->
                    [sigs[k] EXCEPT !.history =
                        update_history(PriorHistory(e, k), sigs[k].risk, HISTORY_LENGTH)]]
    IN  [shown EXCEPT
            !["aviation"].baseline =
                update_history(avBase, sigs["aviation"].count, AVIATION_HISTORY_LENGTH),
            !["tanker"].baseline =
                update_history(tkBase, sigs["tanker"].count, TANKER_HISTORY_LENGTH)]

\* lines 225-249
BuildDocument(sigs, e, timestamp_ms) ==
    LET total_risk == calculate_total_risk(sigs)
    IN  MakeDoc(sigs,
                [shape |-> "map", risk |-> total_risk,
                 history |-> update_trend_history(PriorTrend(e), total_risk, timestamp_ms),
                 elevated_count |-> count_elevated_signals(sigs)],
                timestamp_ms)

\* lines 197-249
BuildOutput ==
    /\ pc = "build"
    /\ IF /\ Truthy(existing)
          /\ \/ \E k \in SourceKeys : existing.doc[k].shape = "scalar"
             \/ existing.doc.total_risk.shape = "scalar"
       THEN \* AttributeError at line 211 or 236
            Raise("shape") /\ UNCHANGED faults
       ELSE /\ signals' = WithHistories(signals, existing, aviation_baseline, tanker_baseline)
            /\ output' = BuildDocument(signals', existing, now)
            /\ pc' = "open"
            /\ UNCHANGED <<file, existing, aviation_baseline, tanker_baseline, now, env,
                           exitCode, failure, file0, log, runs, changes, faults,
                           histVars, scoreVars, restVars>>

\* line 252: open(OUTPUT_FILE, 'w') truncates the file
OpenOutput ==
    /\ pc = "open"
    /\ file' = FileOf("partial", output, 0)
    /\ pc' = "dump"
    /\ UNCHANGED <<existing, signals, aviation_baseline, tanker_baseline, output, now, env,
                   exitCode, failure, file0, log, runs, changes, faults, histVars, scoreVars, restVars>>

\* line 253: json.dump writes the document piece by piece, here key by key
DumpChunk ==
    /\ pc = "dump"
    /\ file.n < NKeys
    /\ file' = FileOf(IF file.n + 1 = NKeys THEN "object" ELSE "partial", output, file.n + 1)
    /\ UNCHANGED <<pc, existing, signals, aviation_baseline, tanker_baseline, output, now, env,
                   exitCode, failure, file0, log, runs, changes, faults, histVars, scoreVars, restVars>>

NoPriorState(e) == ~Truthy(e) \/ \A k \in SourceKeys : e.doc[k].shape # "map"

\* lines 253-256: the with block closes the file and main() returns
CloseOutput ==
    /\ pc = "dump"
    /\ file.n = NKeys
    /\ pc' = "exited" /\ exitCode' = 0
    /\ log' = Append(IF NoPriorState(existing) THEN <<>> ELSE log,
                     [k \in SourceKeys |-> signals[k].risk])
    /\ countLog' = Append(IF NoPriorState(existing) THEN <<>> ELSE countLog,
                          [env |-> env, aviation |-> signals.aviation.count,
                           tanker |-> signals.tanker.count])
    /\ UNCHANGED <<file, existing, signals, aviation_baseline, tanker_baseline, output, now, env,
                   failure, file0, runs, changes, faults, histVars, scoreVars,
                   trendVars, totVars, recVars, fetchVars>>

\* the process is killed, or the write fails, before the document is complete
Crash ==
    /\ pc = "dump"
    /\ file.n < NKeys
    /\ faults < MaxFaults
    /\ faults' = faults + 1
    /\ Raise("crash")

Next ==
    \/ StartRun
    \/ load_existing_data
    \/ get_news_risk
    \/ GetBaselines
    \/ get_aviation_risk
    \/ get_tanker_risk
    \/ get_pentagon_pizza_risk
    \/ get_polymarket_risk
    \/ get_weather_risk
    \/ BuildOutput
    \/ OpenOutput
    \/ DumpChunk
    \/ CloseOutput
    \/ Crash

Spec == Init /\ [][Next]_vars

\* C1: when an adapter raises, the run ends with an error and data.json
\* holds exactly what it held when the run started.
C1_AdapterErrorNoWrite ==
    failure \in SourceKeys => (pc = "exited" /\ exitCode = 1 /\ file = file0)

\* the last adapter failed after the five others had returned, over a
\* document written by an earlier run
C1_Witness ==
    /\ failure = "weather"
    /\ signals["polymarket"].shape = "map"
    /\ file0.kind = "object" /\ file0.doc.news.shape = "map"
    /\ file = file0

\* C2: at every moment data.json holds either the complete previous
\* document or the complete new one.
C2_AtomicReplace ==
    file = file0 \/ file = FileOf("object", output, NKeys)

CorruptPrior(f) ==
    \/ f.kind \in {"missing", "invalid", "undecodable", "falsy", "nonobject", "partial"}
    \/ /\ f.kind = "object"
       /\ \/ \E k \in SourceKeys : f.doc[k].shape = "scalar"
          \/ f.doc.total_risk.shape = "scalar"

\* C3: a run that starts from a missing, unreadable or misshapen data.json
\* and in which no adapter fails completes and writes a document whose
\* histories hold this run's values only.
C3_CorruptPriorNotFatal ==
    (pc = "exited" /\ CorruptPrior(file0) /\ failure \notin (SourceKeys \cup {"crash"})) =>
        /\ exitCode = 0
        /\ file.kind = "object"
        /\ \A k \in SourceKeys : file.doc[k].history = <<signals[k].risk>>
        /\ Len(file.doc.total_risk.history) = 1

\* C6: after a successful run the persisted display history of every source
\* is the prior persisted history followed by this run's risk, cut to its
\* last 17 entries; after n successful runs from no prior state it is the
\* risks of the last min(n, 17) runs in run order.
C6_DisplayHistory ==
    (pc = "exited" /\ exitCode = 0) =>
        \A k \in SourceKeys :
            LET prior == IF file0.kind = "object" /\ file0.doc[k].shape = "map"
                         THEN file0.doc[k].history ELSE <<>>
                n == Len(log)
                all == Append(prior, log[n][k])
                keep == IF Len(all) <= 17 THEN Len(all) ELSE 17
                runsKept == IF n <= 17 THEN n ELSE 17
                h == file.doc[k].history
            IN  /\ Len(h) <= 17
                /\ h[Len(h)] = log[n][k]
                /\ h = [i \in 1..keep |-> all[Len(all) - keep + i]]
                /\ h = [i \in 1..runsKept |-> log[n - runsKept + i][k]]

\* the eighteenth successful run in a row: the oldest entry was dropped and
\* the history holds different risks
C6_Witness ==
    /\ pc = "exited" /\ exitCode = 0
    /\ Len(log) = 18
    /\ Len(file.doc.news.history) = 17
    /\ Len(file0.doc.news.history) = 17
    /\ file.doc.news.history[1] # file.doc.news.history[17]

\* ------------------------------------------------------------------------
\* SpecTrend: update_trend_history called again and again on its own
\* result, starting from no series, with increasing timestamps.  The
\* schedule first runs at a regular interval (10 or 50 minutes); from some
\* call on, the calls come 10 minutes or 73 hours after the previous one.
\* The risk of the n-th entry is 7n mod 101.
\* ------------------------------------------------------------------------
RegularGaps == {Cadence, PIN_INTERVAL_MS}
LongGap == RETENTION_MS + 6 * Cadence
TrendRisk(n) == (7 * n) % 101

InitTrend ==
    /\ trend = <<>> /\ tPrior = <<>> /\ tAppended = <<>> /\ tRebuilt = FALSE
    /\ tNow = 0
    /\ tRegular \in RegularGaps
    /\ tPhase = "regular"
    /\ tCalls = 0 /\ tTail = 0 /\ tLong = 0
    /\ HistoryIdle /\ ScoreIdle /\ RunIdle
    /\ TotalIdle /\ RecordsIdle /\ AuxIdle /\ FetchIdle

\* one call update_trend_history(trend, risk, tNow + gap), lines 82-124
CallTrend(gap) ==
    LET timestamp_ms == tNow + gap
        new_risk == TrendRisk(tCalls)
    IN  /\ tPrior' = trend
        /\ tAppended' = TrendAppended(trend, new_risk, timestamp_ms)
        /\ tRebuilt' = (Len(tAppended') > MAX_ENTRIES)
        /\ trend' = update_trend_history(trend, new_risk, timestamp_ms)
        /\ tNow' = timestamp_ms
        /\ tCalls' = tCalls + 1
        /\ UNCHANGED <<tRegular, histVars, scoreVars, runVars, totVars, recVars, auxVars,
                       fetchVars>>

RegularCall ==
    /\ tPhase = "regular" /\ tCalls < MaxRegular
    /\ CallTrend(tRegular)
    /\ UNCHANGED <<tPhase, tTail, tLong>>

SoonCall ==
    /\ tPhase \in {"regular", "tail"} /\ tTail < MaxTail
    /\ tPhase = "regular" => tRegular # Cadence
    /\ CallTrend(Cadence)
    /\ tPhase' = "tail" /\ tTail' = tTail + 1
    /\ UNCHANGED tLong

LateCall ==
    /\ tPhase \in {"regular", "tail"} /\ tTail < MaxTail /\ tLong < MaxLong
    /\ CallTrend(LongGap)
    /\ tPhase' = "tail" /\ tTail' = tTail + 1 /\ tLong' = tLong + 1

NextTrend == RegularCall \/ SoonCall \/ LateCall

SpecTrend == InitTrend /\ [][NextTrend]_vars

\* C11: in the trend series no two entries marked pinned have timestamps
\* less than 50 minutes apart
C11_PinThrottle ==
    \A i, j \in 1..Len(trend) :
        (i # j /\ trend[i].pinned /\ trend[j].pinned
               /\ trend[i].timestamp <= trend[j].timestamp)
            => trend[j].timestamp - trend[i].timestamp >= PIN_INTERVAL_MS

\* C12: when a call rebuilds the series, the rebuilt series contains every
\* entry of the series before the rebuild that is pinned and whose
\* timestamp lies within the last 72 hours of the call's timestamp
C12_PinnedRetained ==
    tRebuilt =>
        \A i \in 1..Len(tAppended) :
            (tAppended[i].pinned /\ tAppended[i].timestamp > tNow - RETENTION_MS)
                => InList(tAppended[i], trend)

\* a rebuild that dropped entries while an older pinned entry was in the window
C12_Witness ==
    /\ tRebuilt
    /\ Len(trend) < Len(tAppended)
    /\ \E i \in 1..Len(tPrior) :
          tPrior[i].pinned /\ tPrior[i].timestamp > tNow - RETENTION_MS

\* number of entries of l with a later timestamp than l[i]
Later(l, i) == Cardinality({j \in 1..Len(l) : l[j].timestamp > l[i].timestamp})

\* C13: when a call rebuilds the series, the rebuilt series contains the
\* ten most recent entries: the entry just appended and the nine entries
\* with the latest timestamps before it
C13_RecentRetained ==
    tRebuilt =>
        \A i \in 1..Len(tAppended) :
            Later(tAppended, i) < 10 => InList(tAppended[i], trend)

\* the place of entry e in the series l (timestamps are distinct)
IndexIn(e, l) == CHOOSE i \in 1..Len(l) : l[i] = e

\* C21: after every call the entries that survive keep the order they had
\* in the series with the new entry appended, the series is in
\* non-decreasing timestamp order, and the entry appended by the call is the
\* last element of the series
C21_OrderedAppendOnly ==
    tCalls > 0 =>
        /\ \A i, j \in 1..Len(trend) :
              (i < j /\ InList(trend[i], tAppended) /\ InList(trend[j], tAppended))
                  => IndexIn(trend[i], tAppended) < IndexIn(trend[j], tAppended)
        /\ \A i \in 1..(Len(trend) - 1) : trend[i].timestamp <= trend[i + 1].timestamp
        /\ trend # <<>>
        /\ trend[Len(trend)] = tAppended[Len(tAppended)]

\* C22: after every call the series holds at most 80 entries
C22_TrendCapped ==
    Len(trend) <= MAX_ENTRIES

\* ------------------------------------------------------------------------
\* SpecTotal: calculate_total_risk applied to a signals mapping in which
\* each source is present with a risk or missing.
\* ------------------------------------------------------------------------
CompositeRisks == {0, 3, 50, 100}

\* the worked example of the specification
ExampleSignals ==
    [news |-> Snapshot(10, 0), aviation |-> Snapshot(80, 0), tanker |-> Snapshot(15, 0),
     pentagon |-> Snapshot(20, 0), polymarket |-> Snapshot(90, 0), weather |-> Snapshot(5, 0)]

SignalMaps == [SourceKeys -> {AbsentEntry} \cup {Snapshot(r, 0) : r \in CompositeRisks}]

InitTotal ==
    /\ cSignals \in SignalMaps \cup {ExampleSignals}
    /\ cTotal = -1
    /\ HistoryIdle /\ ScoreIdle /\ RunIdle
    /\ TrendIdle /\ RecordsIdle /\ AuxIdle /\ FetchIdle

Compose ==
    /\ cTotal = -1
    /\ cTotal' = calculate_total_risk(cSignals)
    /\ UNCHANGED <<cSignals, histVars, scoreVars, runVars, trendVars, recVars, auxVars,
                   fetchVars>>

NextTotal == Compose

SpecTotal == InitTotal /\ [][NextTotal]_vars

Present == {k \in SourceKeys : cSignals[k].shape = "map"}

\* C14: when all six sources report a risk, the composite lies between the
\* smallest and the largest of the six risks (inclusive)
C14_CompositeBetween ==
    (cTotal # -1 /\ Present = SourceKeys) =>
        /\ \E k \in SourceKeys : cSignals[k].risk <= cTotal
        /\ \E k \in SourceKeys : cTotal <= cSignals[k].risk

\* C15: when all six sources report a risk, the composite is the floor of
\* 0.40*polymarket + 0.20*aviation + 0.15*tanker + 0.10*news + 0.10*pentagon
\* + 0.05*weather (57 for the worked example)
C15_WeightedFloor ==
    (cTotal # -1 /\ Present = SourceKeys) =>
        /\ cTotal = SumOver([k \in SourceKeys |-> WEIGHTS[k] * cSignals[k].risk],
                            SourceKeys) \div 100
        /\ cSignals = ExampleSignals => cTotal = 57

\* C16: when a non-empty proper subset of the sources is present, the
\* composite is int(sum of weight*risk / sum of weights) over the present
\* sources, lies between their smallest and largest risk and is at most 100
C16_Renormalized ==
    (cTotal # -1 /\ Present # {} /\ Present # SourceKeys) =>
        /\ cTotal = PyInt(SumOver([k \in SourceKeys |-> WEIGHTS[k] * cSignals[k].risk],
                                  Present),
                          SumOver(WEIGHTS, Present))
        /\ \E k \in Present : cSignals[k].risk <= cTotal
        /\ \E k \in Present : cTotal <= cSignals[k].risk
        /\ cTotal <= 100

LastOf(s, n) == [i \in 1..Min(n, Len(s)) |-> s[Len(s) - Min(n, Len(s)) + i]]

\* a successful run that loaded the document of the previous successful run
\* and got the same data from every service as that run
SameDataAgain ==
    /\ pc = "exited" /\ exitCode = 0
    /\ Len(countLog) >= 2
    /\ countLog[Len(countLog)].env = countLog[Len(countLog) - 1].env
    /\ file0.kind = "object"

DisplayHistoriesExtended ==
    \A k \in SourceKeys :
        file.doc[k].history = LastOf(Append(file0.doc[k].history, file.doc[k].risk), 17)

\* C18: reloading the state a successful run persisted and running again
\* with the same raw data yields identical risks for all six sources and
\* the composite, and histories that differ only by the appended entries
C18_RoundTrip ==
    SameDataAgain =>
        /\ \A k \in SourceKeys : file.doc[k].risk = file0.doc[k].risk
        /\ file.doc.total_risk.risk = file0.doc.total_risk.risk
        /\ DisplayHistoriesExtended

\* C18, amended: reloading the state a successful run persisted and running
\* again with the same raw data yields identical risks for news, polymarket
\* and weather; the aviation and tanker risks are those of the same counts
\* scored against the baseline histories the previous run persisted, which
\* hold one entry more than that run was scored against; the composite is
\* identical whenever the six risks are; every display history is the
\* previous one with the new risk appended, cut to the last 17, and every
\* baseline history the previous one with the count appended, cut to its cap
C18_RoundTripAmended ==
    SameDataAgain =>
        /\ \A k \in {"news", "polymarket", "weather"} : file.doc[k].risk = file0.doc[k].risk
        /\ file.doc.aviation.count = file0.doc.aviation.count
        /\ file.doc.tanker.count = file0.doc.tanker.count
        /\ file.doc.aviation.risk
               = aviation_risk(file0.doc.aviation.count, file0.doc.aviation.baseline)
        /\ file.doc.tanker.risk
               = tanker_risk(file0.doc.tanker.count, file0.doc.tanker.baseline)
        /\ (\A k \in SourceKeys : file.doc[k].risk = file0.doc[k].risk)
               => file.doc.total_risk.risk = file0.doc.total_risk.risk
        /\ DisplayHistoriesExtended
        /\ file.doc.aviation.baseline
               = LastOf(Append(file0.doc.aviation.baseline, file.doc.aviation.count), 144)
        /\ file.doc.tanker.baseline
               = LastOf(Append(file0.doc.tanker.baseline, file.doc.tanker.count), 1008)

\* the seventh successful run in a row on the same data: the aviation risk
\* leaves the cold-start policy and changes
C18_Witness ==
    /\ SameDataAgain
    /\ Len(file0.doc.aviation.baseline) = 6
    /\ file.doc.aviation.risk # file0.doc.aviation.risk

\* ------------------------------------------------------------------------
\* SpecRecords: one adapter working through the collection of records of
\* one upstream response, up to the point where it returns a Snapshot or
\* raises.  A record is given by what the adapter looks at.
\*   state vector  form "list" with len fields, or "null"; on_ground is
\*                 field 8, tanker whether the callsign has a tanker prefix
\*   timeline point  form "dict" or "null"; date_ok whether the date and the
\*                 value parse
\*   place         whether it has a name; popular is "none" (no
\*                 popular_times), "closed" (no busyness for this hour) or "ok"
\*   event         form "dict" or "null"; priced whether one of its markets
\*                 has a positive YES price
\* ------------------------------------------------------------------------
PENTAGON_PIZZA_PLACES == 5
RETRIES == 3

StateVectors ==
    {[form |-> "null", len |-> 0, on_ground |-> FALSE, tanker |-> FALSE]}
        \cup [form : {"list"}, len : {8, 12, 17}, on_ground : BOOLEAN, tanker : BOOLEAN]

TimelinePoints ==
    {[form |-> "null", date_ok |-> FALSE]} \cup [form : {"dict"}, date_ok : BOOLEAN]

Places == [name : BOOLEAN, popular : {"none", "closed", "ok"}]

Events == {[form |-> "null", priced |-> FALSE]} \cup [form : {"dict"}, priced : BOOLEAN]

ListsOf(S) == UNION {[1..n -> S] : n \in 0..MaxRecords}

InitRecords ==
    /\ \/ rAdapter \in {"aviation", "tanker"} /\ rRecords \in ListsOf(StateVectors)
       \/ rAdapter = "news" /\ rRecords \in ListsOf(TimelinePoints)
       \/ rAdapter = "pentagon" /\ rRecords \in [1..PENTAGON_PIZZA_PLACES -> Places]
       \/ rAdapter = "polymarket" /\ rRecords \in ListsOf(Events)
    /\ rOutcome = "none" /\ rCount = 0
    /\ HistoryIdle /\ ScoreIdle /\ RunIdle
    /\ TrendIdle /\ TotalIdle /\ AuxIdle /\ FetchIdle

\* the number of records whose flag is set
CountOf(flags) == Cardinality({i \in DOMAIN flags : flags[i]})

Finish(outcome, count) ==
    /\ rOutcome' = outcome
    /\ rCount' = count
    /\ UNCHANGED <<rAdapter, rRecords, histVars, scoreVars, runVars, trendVars, totVars, auxVars,
                   fetchVars>>

\* aviation.py 64-77 and 150-159: len(state) raises TypeError on a null
RunAviation ==
    /\ rAdapter = "aviation" /\ rOutcome = "none"
    /\ IF \E i \in 1..Len(rRecords) : rRecords[i].form = "null"
       THEN Finish("error", 0)
       ELSE Finish("snapshot", CountOf([i \in DOMAIN rRecords |-> LET r == rRecords[i] IN r.len >= 9 /\ ~r.on_ground]))

\* tankers.py 165-193
RunTanker ==
    /\ rAdapter = "tanker" /\ rOutcome = "none"
    /\ IF \E i \in 1..Len(rRecords) : rRecords[i].form = "null"
       THEN Finish("error", 0)
       ELSE Finish("snapshot",
                   CountOf([i \in DOMAIN rRecords |-> LET r == rRecords[i] IN r.len >= 17 /\ ~r.on_ground /\ r.tanker]))

\* news.py 71-93 and 128-166: entry.get raises AttributeError on a null; no
\* parsed entry gives the zero-risk Snapshot 'No GDELT data'
RunNews ==
    /\ rAdapter = "news" /\ rOutcome = "none"
    /\ IF \E i \in 1..Len(rRecords) : rRecords[i].form = "null"
       THEN Finish("error", 0)
       ELSE Finish("snapshot", CountOf([i \in DOMAIN rRecords |-> LET r == rRecords[i] IN r.date_ok]))

\* pentagon_pizza.py 138-187: place['name'] raises KeyError; no valid place
\* raises ValueError
RunPentagon ==
    /\ rAdapter = "pentagon" /\ rOutcome = "none"
    /\ LET valid_places == CountOf([i \in DOMAIN rRecords |-> LET r == rRecords[i] IN r.popular = "ok"])
       IN  IF \/ \E i \in 1..Len(rRecords) : ~rRecords[i].name
              \/ valid_places = 0
           THEN Finish("error", 0)
           ELSE Finish("snapshot", valid_places)

\* polymarket.py 118-148: e.get raises AttributeError on a null; no result
\* raises ValueError
RunPolymarket ==
    /\ rAdapter = "polymarket" /\ rOutcome = "none"
    /\ LET results == CountOf([i \in DOMAIN rRecords |-> LET r == rRecords[i] IN r.priced])
       IN  IF \/ \E i \in 1..Len(rRecords) : rRecords[i].form = "null"
              \/ results = 0
           THEN Finish("error", 0)
           ELSE Finish("snapshot", results)

NextRecords == RunAviation \/ RunTanker \/ RunNews \/ RunPentagon \/ RunPolymarket

SpecRecords == InitRecords /\ [][NextRecords]_vars

\* a record the adapter can use: well-formed and complete
Usable(r) ==
    CASE rAdapter = "aviation" -> r.form = "list" /\ r.len >= 9
      [] rAdapter = "tanker" -> r.form = "list" /\ r.len >= 17
      [] rAdapter = "news" -> r.form = "dict" /\ r.date_ok
      [] rAdapter = "pentagon" -> r.name /\ r.popular = "ok"
      [] rAdapter = "polymarket" -> r.form = "dict" /\ r.priced

\* C19: for each adapter that works through a collection of records,
\* malformed or short records are skipped without failing as long as one
\* record is usable, and when every record is unusable the adapter raises
\* instead of returning a Snapshot
C19_SkipOrRaise ==
    rOutcome # "none" =>
        /\ (\E i \in 1..Len(rRecords) : Usable(rRecords[i])) => rOutcome = "snapshot"
        /\ (rRecords # <<>> /\ \A i \in 1..Len(rRecords) : ~Usable(rRecords[i]))
               => rOutcome = "error"

\* ------------------------------------------------------------------------
\* SpecLong: the job of Spec run on schedule from no prior state for more than
\* a week, long enough for both baseline histories to reach their caps. The
\* data follows a fixed schedule of the two scenarios; in one early run a
\* service may fail or the process may be killed while writing.
\* ------------------------------------------------------------------------
\* the scenario the services report in run k
LongSchedule(k) == IF k % 5 \in {0, 3} THEN 2 ELSE 1

InitLong ==
    /\ file = FileOf("missing", EmptyDoc, 0)
    /\ file0 = file
    /\ pc = "idle" /\ existing = NoValue /\ signals = NoSignals
    /\ aviation_baseline = <<>> /\ tanker_baseline = <<>>
    /\ output = EmptyDoc /\ now = 0 /\ env = 0
    /\ exitCode = -1 /\ failure = "none" /\ log = <<>>
    /\ runs = 0 /\ changes = MaxChanges /\ faults = MaxFaults
    /\ HistoryIdle /\ ScoreIdle /\ RestIdle

\* the scheduler starts the job
StartLongRun ==
    /\ pc \in {"idle", "exited"}
    /\ runs < MaxLongRuns
    /\ runs' = runs + 1
    /\ env' = LongSchedule(runs + 1)
    /\ now' = now + Cadence
    /\ file0' = file
    /\ pc' = "load"
    /\ existing' = NoValue /\ signals' = NoSignals
    /\ aviation_baseline' = <<>> /\ tanker_baseline' = <<>>
    /\ output' = EmptyDoc
    /\ exitCode' = -1 /\ failure' = "none"
    /\ faults' = IF runs + 1 = FaultyRun THEN MaxFaults - 1 ELSE MaxFaults
    /\ UNCHANGED <<file, log, changes, histVars, scoreVars, restVars>>

NextLong ==
    \/ StartLongRun
    \/ load_existing_data
    \/ get_news_risk
    \/ GetBaselines
    \/ get_aviation_risk
    \/ get_tanker_risk
    \/ get_pentagon_pizza_risk
    \/ get_polymarket_risk
    \/ get_weather_risk
    \/ BuildOutput
    \/ OpenOutput
    \/ DumpChunk
    \/ CloseOutput
    \/ Crash

SpecLong == InitLong /\ [][NextLong]_vars

\* the aviation and tanker counts of the successful runs so far, oldest first
AviationCounts == [i \in 1..Len(countLog) |-> countLog[i].aviation]
TankerCounts == [i \in 1..Len(countLog) |-> countLog[i].tanker]

\* C20: starting from no prior state, the k-th successful run scores aviation
\* and tankers against the baseline history the previous successful run
\* persisted, which is exactly the counts of the previous min(k-1, cap)
\* successful runs in order (cap 144 for aviation, 1008 for tankers) and does
\* not contain the count of run k; the count of run k is appended only after
\* scoring and persisted with the same cap; the history is shorter than the
\* minimum for a baseline, so that the cold-start tiers apply, exactly in
\* successful runs 1 to 6.
C20_BaselineFeedsNextRun ==
    (pc = "exited" /\ exitCode = 0) =>
        LET k == Len(countLog)
            av == AviationCounts
            tk == TankerCounts
        IN  /\ aviation_baseline = LastOf(SubSeq(av, 1, k - 1), AVIATION_HISTORY_LENGTH)
            /\ tanker_baseline = LastOf(SubSeq(tk, 1, k - 1), TANKER_HISTORY_LENGTH)
            /\ k >= 2 => /\ file0.kind = "object"
                         /\ aviation_baseline = file0.doc.aviation.baseline
                         /\ tanker_baseline = file0.doc.tanker.baseline
            /\ file.doc.aviation.risk = aviation_risk(av[k], aviation_baseline)
            /\ file.doc.tanker.risk = tanker_risk(tk[k], tanker_baseline)
            /\ file.doc.aviation.baseline = LastOf(av, AVIATION_HISTORY_LENGTH)
            /\ file.doc.tanker.baseline = LastOf(tk, TANKER_HISTORY_LENGTH)
            /\ (k <= MIN_HISTORY_FOR_BASELINE) <=> (Len(aviation_baseline) < MIN_HISTORY_FOR_BASELINE)
            /\ (k <= MIN_HISTORY_FOR_BASELINE) <=> (Len(tanker_baseline) < MIN_HISTORY_FOR_BASELINE)
            /\ k <= MIN_HISTORY_FOR_BASELINE =>
                  /\ file.doc.aviation.risk = AviationColdStart(av[k])
                  /\ tk[k] \in 1..(SURGE_THRESHOLD - 1) =>
                        file.doc.tanker.risk = TankerColdStart(tk[k])

\* a successful run scored after the aviation history was full: the oldest
\* count is gone from the baseline it was scored against, while the tanker
\* baseline still holds every earlier count
C20_Witness ==
    /\ pc = "exited" /\ exitCode = 0
    /\ Len(countLog) = AVIATION_HISTORY_LENGTH + 2
    /\ Len(aviation_baseline) = AVIATION_HISTORY_LENGTH
    /\ aviation_baseline[1] = countLog[2].aviation
    /\ file.doc.aviation.baseline[1] = countLog[3].aviation
    /\ countLog[2].aviation # countLog[3].aviation
    /\ Len(tanker_baseline) = AVIATION_HISTORY_LENGTH + 1
    /\ file.doc.aviation.risk # AviationColdStart(countLog[Len(countLog)].aviation)

\* ------------------------------------------------------------------------
\* SpecFetch: sources/pentagon_pizza.py, fetch_place_data, statement by
\* statement, called by get_pentagon_pizza_risk for one place after the
\* other (line 139) as long as the previous call returned.  The service
\* answers each request with any of the outcomes below.
\* ------------------------------------------------------------------------
\* exceptions requests.get raises that the except clause of line 59 catches
Transient == {"Timeout", "ConnectionError"}

\* what a request can end in: an exception, or a response with a status and
\* a body.  Bodies: not JSON; JSON without the key 'data'; {"data": []};
\* {"data": [[place]]} with a full place or with a place without fields
Responses == [status : {"ok", "error"},
              body : {"not_json", "no_data", "empty", "place", "bare_place"}]

InitFetch ==
    /\ api_key \in BOOLEAN
    /\ fPlace = 0 /\ fPc = "idle" /\ attempt = 0
    /\ last_error = "None" /\ response = NoResponse /\ fRequests = 0
    /\ fOutcome = "none" /\ fResult = "none" /\ fTrace = <<>>
    /\ HistoryIdle /\ ScoreIdle /\ RunIdle
    /\ TrendIdle /\ TotalIdle /\ RecordsIdle /\ AuxIdle

OthersUnchanged ==
    UNCHANGED <<histVars, scoreVars, runVars, trendVars, totVars, recVars, auxVars>>

\* an exception leaves fetch_place_data; the attempt, if one was under way,
\* ended with it
LeaveWith(exc, inAttempt) ==
    /\ fPc' = "raised" /\ fOutcome' = exc
    /\ fTrace' = IF inAttempt THEN Append(fTrace, exc) ELSE fTrace
    /\ UNCHANGED <<api_key, fPlace, attempt, last_error, response, fRequests, fResult>>
    /\ OthersUnchanged

\* pentagon_pizza.py line 139: place = fetch_place_data(place_id)
CallFetch ==
    /\ fPc \in {"idle", "returned"}
    /\ fPlace < PENTAGON_PIZZA_PLACES
    /\ fPlace' = fPlace + 1
    /\ fPc' = "key" /\ attempt' = 0 /\ last_error' = "None"
    /\ response' = NoResponse /\ fRequests' = 0
    /\ fOutcome' = "none" /\ fResult' = "none" /\ fTrace' = <<>>
    /\ UNCHANGED api_key
    /\ OthersUnchanged

\* lines 38-39
CheckKey ==
    /\ fPc = "key"
    /\ IF ~api_key
       THEN LeaveWith("ValueError", FALSE)
       ELSE /\ fPc' = "for"
            /\ UNCHANGED <<api_key, fPlace, attempt, last_error, response, fRequests,
                           fOutcome, fResult, fTrace>>
            /\ OthersUnchanged

\* line 52: for attempt in range(retries)
ForNext ==
    /\ fPc = "for"
    /\ IF attempt < RETRIES
       THEN attempt' = attempt + 1 /\ fPc' = "get"
       ELSE attempt' = attempt /\ fPc' = "raise_last"
    /\ UNCHANGED <<api_key, fPlace, last_error, response, fRequests, fOutcome, fResult, fTrace>>
    /\ OthersUnchanged

\* the except clause of lines 59-60
CatchTransient(exc) ==
    /\ last_error' = exc
    /\ fTrace' = Append(fTrace, exc)
    /\ fPc' = "for"
    /\ UNCHANGED <<api_key, fPlace, attempt, response, fOutcome, fResult>>
    /\ OthersUnchanged

\* line 54: requests.get(..., timeout=90)
Get ==
    /\ fPc = "get"
    /\ fRequests' = fRequests + 1
    /\ \/ \E exc \in Transient : CatchTransient(exc)
       \/ /\ fPc' = "raised" /\ fOutcome' = "TooManyRedirects"
          /\ fTrace' = Append(fTrace, "TooManyRedirects")
          /\ UNCHANGED <<api_key, fPlace, attempt, last_error, response, fResult>>
          /\ OthersUnchanged
       \/ \E r \in Responses :
             /\ response' = r
             /\ fPc' = "status"
             /\ UNCHANGED <<api_key, fPlace, attempt, last_error, fOutcome, fResult, fTrace>>
             /\ OthersUnchanged

\* a non-success status caught like a timeout, and the request made again
RaiseForStatus_retried ==
    /\ fPc = "status"
    /\ IF response.status = "error"
       THEN CatchTransient("HTTPError") /\ UNCHANGED fRequests
       ELSE /\ fPc' = "json"
            /\ UNCHANGED <<api_key, fPlace, attempt, last_error, response, fRequests,
                           fOutcome, fResult, fTrace>>
            /\ OthersUnchanged

\* line 55: response.raise_for_status()
RaiseForStatus ==
    /\ fPc = "status"
    /\ IF response.status = "error"
       THEN LeaveWith("HTTPError", TRUE)
       ELSE /\ fPc' = "json"
            /\ UNCHANGED <<api_key, fPlace, attempt, last_error, response, fRequests,
                           fOutcome, fResult, fTrace>>
            /\ OthersUnchanged

\* line 57: data = response.json()
Json ==
    /\ fPc = "json"
    /\ IF response.body = "not_json"
       THEN LeaveWith("JSONDecodeError", TRUE)
       ELSE /\ fPc' = "index"
            /\ UNCHANGED <<api_key, fPlace, attempt, last_error, response, fRequests,
                           fOutcome, fResult, fTrace>>
            /\ OthersUnchanged

\* line 58: return data['data'][0][0]
ReturnPlace ==
    /\ fPc = "index"
    /\ CASE response.body = "no_data" -> LeaveWith("KeyError", TRUE)
         [] response.body = "empty" -> LeaveWith("IndexError", TRUE)
         [] OTHER ->
              /\ fPc' = "returned" /\ fOutcome' = "returned"
              /\ fResult' = response.body
              /\ fTrace' = Append(fTrace, "ok")
              /\ UNCHANGED <<api_key, fPlace, attempt, last_error, response, fRequests>>
              /\ OthersUnchanged

\* line 62: raise last_error (raise None is a TypeError)
RaiseLast ==
    /\ fPc = "raise_last"
    /\ LeaveWith(IF last_error = "None" THEN "TypeError" ELSE last_error, FALSE)

FetchStep == CheckKey \/ ForNext \/ Get \/ RaiseForStatus \/ Json \/ ReturnPlace \/ RaiseLast

NextFetch == CallFetch \/ FetchStep

\* the interpreter goes on with the call until it returns or raises; a
\* request ends within its timeout
SpecFetch == InitFetch /\ [][NextFetch]_vars /\ WF_vars(FetchStep)

\* the call of fetch_place_data is over
FetchDone == fPc \in {"returned", "raised"}

\* what holds in every state of a call of fetch_place_data
RetryDiscipline ==
    \* at most `retries` requests per place
    /\ fRequests <= RETRIES /\ attempt <= RETRIES
    /\ fRequests = Len(fTrace) + (IF fPc \in {"status", "json", "index"} THEN 1 ELSE 0)
    \* another attempt is made only after a timeout or a connection error
    /\ \A i \in 1..(Len(fTrace) - 1) : fTrace[i] \in Transient
    \* it returns on the first successful response, with the place of that response
    /\ fPc = "returned" =>
          /\ fTrace # <<>> /\ fTrace[Len(fTrace)] = "ok"
          /\ fResult = response.body /\ response.status = "ok"
    \* otherwise the error of the last attempt is raised, at once unless it is
    \* a timeout or a connection error, and then after `retries` attempts
    /\ (fPc = "raised" /\ api_key) =>
          /\ fTrace # <<>> /\ fOutcome = fTrace[Len(fTrace)]
          /\ fOutcome # "ok" /\ fResult = "none"
          /\ fOutcome \in Transient => (Len(fTrace) = RETRIES /\ fRequests = RETRIES)

\* C23: fetch_place_data makes at most `retries` (3) requests per place,
\* returns on the first successful response, makes another attempt only
\* after a timeout or a connection error, raises at once on a non-success
\* status or a response without the expected fields, raises the last error
\* after the last failed attempt, and every call ends: it returns or raises
C23_RetryTerminates ==
    /\ []RetryDiscipline
    /\ (fPc = "key") ~> FetchDone

\* the second place, fetched after the first returned: a connection error
\* and two timeouts, then the last timeout is raised
C23_Witness ==
    /\ fPlace = 2 /\ fPc = "raised"
    /\ fTrace = <<"ConnectionError", "Timeout", "Timeout">>
    /\ fOutcome = "Timeout" /\ fRequests = RETRIES

====
